---------------------------- MODULE Spec2Model ----------------------------
(***************************************************************************)
(* Model of the deals-bot backend (backend/main.py, backend/schemas.py).   *)
(*                                                                         *)
(* Number representation.  The program computes with IEEE doubles; the     *)
(* model computes with fixed-point integers:                               *)
(*   money   (price, original_price, min_price, max_price)  1 = 0.0001     *)
(*   rating, discount_percent                               1 = 0.01       *)
(*   component scores (price/rating/reviews score)          1 = 0.000001   *)
(*   weighted blend before rounding                         1 = 0.00000001 *)
(*   quality_score (after round(., 4))                      1 = 0.0001     *)
(* Optional[T] is a sequence of length 0 (None) or 1 (a value).            *)
(* A query is the sequence of its space-separated lower-case words.  A     *)
(* title or URL is the concatenation of its parts; the pitch is kept as    *)
(* the sequence of the literal and interpolated pieces of its f-strings.   *)
(* The non-ASCII characters of the literals are written in ASCII: the      *)
(* curly quotes as ', the rupee sign as Rs., the star as * and the dash    *)
(* as -.                                                                   *)
(* GET / and GET /test return constants and read nothing; a body that      *)
(* fails validation never reaches search_deals.  Neither is modelled.      *)
(***************************************************************************)
EXTENDS Integers, Sequences, FiniteSets, TLC

VARIABLES pc, payload, scraped, response, args, ret

vars == <<pc, payload, scraped, response, args, ret>>

None == <<>>

Some(v) == <<v>>

----------------------------------------------------------------------------
(* Scales of the fixed-point representation.                               *)

----------------------------------------------------------------------------
(* Arithmetic helpers.                                                     *)

Max(a, b) == IF a >= b THEN a ELSE b

Min(a, b) == IF a <= b THEN a ELSE b

(* Python's round(): the quotient a/d rounded to the nearest integer, a    *)
(* tie going to the even one (a >= 0, d > 0).                              *)
RoundDiv(a, d) ==
    LET q == a \div d
        r == a % d
    IN  IF 2 * r > d \/ (2 * r = d /\ q % 2 = 1) THEN q + 1 ELSE q

RECURSIVE Pow10(_)
Pow10(e) == IF e = 0 THEN 1 ELSE 10 * Pow10(e - 1)

(* <<floor(a * 10^k / b), remainder>> by long division, one decimal digit  *)
(* a step, so that no intermediate exceeds 10 * b.                         *)
RECURSIVE FixDiv(_, _, _)
FixDiv(a, b, k) ==
    IF k = 0 THEN <<a \div b, a % b>>
    ELSE LET prev == FixDiv(a, b, k - 1)
         IN  <<prev[1] * 10 + (prev[2] * 10) \div b, (prev[2] * 10) % b>>

MoneyUnit == Pow10(4)

ScoreUnit == Pow10(6)

(* Twenty fractional bits for math.log10.                                  *)
LogUnit == 2 ^ 20

(* floor(a * b / ScoreUnit) for 0 <= a, b < 10 * ScoreUnit, computed in    *)
(* three-digit limbs to stay inside 32 bits.                               *)
MulFix(a, b) ==
    LET a1 == a \div 1000
        a0 == a % 1000
        b1 == b \div 1000
        b0 == b % 1000
    IN  a1 * b1 + (a1 * b0 + a0 * b1 + (a0 * b0) \div 1000) \div 1000

(* floor(log10(n)) for n >= 1: the number of decimal digits less one.      *)
RECURSIVE IntLog10(_)
IntLog10(n) == IF n < 10 THEN 0 ELSE 1 + IntLog10(n \div 10)

(* The fractional bits of log10(y), y in [1, 10) at ScoreUnit: square y;   *)
(* when the square reaches 10 the next bit is 1 and the square is divided  *)
(* by 10.  weight is the value of the next bit at LogUnit.                 *)
RECURSIVE LogFrac(_, _)
LogFrac(y, weight) ==
    IF weight = 0 THEN 0
    ELSE LET y2 == MulFix(y, y)
         IN  IF y2 >= 10 * ScoreUnit
             THEN weight + LogFrac(y2 \div 10, weight \div 2)
             ELSE LogFrac(y2, weight \div 2)

(* math.log10(n) for an integer n >= 1, at LogUnit (LogBits fractional     *)
(* bits); exact at the powers of ten, as math.log10 is.                    *)
Log10(n) ==
    LET e == IntLog10(n)
        y == IF e <= 6 THEN n * Pow10(6 - e) ELSE n \div Pow10(e - 6)
    IN  e * LogUnit + LogFrac(y, LogUnit \div 2)

(* A LogUnit value divided by three, at ScoreUnit:                         *)
(* v * ScoreUnit / (3 * LogUnit) = v * 15625 / (3 * 16384), in two limbs.  *)
LogThird(v) ==
    ((v \div 16384) * 15625 + ((v % 16384) * 15625) \div 16384) \div 3

----------------------------------------------------------------------------
(* Scoring (main.py: _norm, score_deal).                                   *)

(* _norm(v, lo, hi) at ScoreUnit, v, lo, hi money: max(0, min(1, q)) with  *)
(* q = (v - lo) / (hi - lo).  The clamp is applied to the numerator, and   *)
(* q * ScoreUnit is taken as (v - lo) / ((hi - lo) / ScoreUnit), hi - lo   *)
(* being a multiple of ScoreUnit in the one call the program makes.        *)
NormNoClamp(v, lo, hi) ==
    IF v = None THEN 0
    ELSE IF hi = lo THEN 0
    ELSE (v[1] - lo) \div ((hi - lo) \div ScoreUnit)

_norm(v, lo, hi) ==
    IF v = None THEN 0
    ELSE IF hi = lo THEN 0
    ELSE LET n == Max(0, Min(hi - lo, v[1] - lo))
         IN  n \div ((hi - lo) \div ScoreUnit)

WeightPrice == 50

WeightRating == 35

WeightReviews == 15

PriceLo == 1000000

PriceHi == 500000000

(* score_deal(price, rating, reviews): the quality score, 1 = 0.0001.      *)
ScoreDealSwappedWeights(price, rating, reviews) ==
    LET price_score == IF price # None
                       THEN ScoreUnit - _norm(price, PriceLo, PriceHi)
                       ELSE 0
        rating_score == IF rating = None THEN 0
                        ELSE (rating[1] * ScoreUnit) \div 500
        reviews_score == IF reviews # None
                         THEN Min(ScoreUnit,
                                  LogThird(Log10(Max(1, reviews[1]))))
                         ELSE 0
    IN  RoundDiv(WeightRating * price_score + WeightPrice * rating_score
                   + WeightReviews * reviews_score, 10000)

score_deal(price, rating, reviews) ==
    LET price_score == IF price # None
                       THEN ScoreUnit - _norm(price, PriceLo, PriceHi)
                       ELSE 0
        rating_score == IF rating = None THEN 0
                        ELSE (rating[1] * ScoreUnit) \div 500
        reviews_score == IF reviews # None
                         THEN Min(ScoreUnit,
                                  LogThird(Log10(Max(1, reviews[1]))))
                         ELSE 0
    IN  RoundDiv(WeightPrice * price_score + WeightRating * rating_score
                   + WeightReviews * reviews_score, 10000)

----------------------------------------------------------------------------
(* Strings.                                                                *)

(* str.capitalize() and, word by word, str.title(), on the lower-case      *)
(* words the model uses.                                                   *)
Capitalize(w) ==
    CASE w = "amazon" -> "Amazon"
      [] w = "flipkart" -> "Flipkart"
      [] w = "myntra" -> "Myntra"
      [] w = "ajio" -> "Ajio"
      [] w = "laptop" -> "Laptop"
      [] w = "red" -> "Red"
      [] w = "shoes" -> "Shoes"
      [] OTHER -> w

(* The words of a query joined by sep: sep = " " is the query itself,      *)
(* sep = "+" is query.replace(" ", "+").                                   *)
RECURSIVE JoinWords(_, _)
JoinWords(words, sep) ==
    IF words = <<>> THEN ""
    ELSE IF Len(words) = 1 THEN words[1]
    ELSE words[1] \o sep \o JoinWords(Tail(words), sep)

QueryText(query) == JoinWords(query, " ")

(* query.title()                                                           *)
Title(query) == JoinWords([i \in 1..Len(query) |-> Capitalize(query[i])], " ")

(* str() of a float held at 1 = 0.01: the integer part, a point and the    *)
(* decimals without trailing zeros, at least one (v >= 0).                 *)
FormatFloat(v) ==
    LET whole == v \div 100
        frac == v % 100
    IN  ToString(whole) \o "." \o
          (IF frac % 10 = 0 THEN ToString(frac \div 10)
           ELSE IF frac < 10 THEN "0" \o ToString(frac)
           ELSE ToString(frac))

(* str() of an Optional value formatted by an f-string.                    *)
FormatOptFloat(x) == IF x = None THEN "None" ELSE FormatFloat(x[1])

FormatOptInt(x) == IF x = None THEN "None" ELSE ToString(x[1])

(* int(price): truncation of a non-negative money value.                   *)
IntPart(price) == price \div MoneyUnit

----------------------------------------------------------------------------
(* list.sort(key=..., reverse=...).                                        *)

(* The order a stable sort puts the first n of keys in, as a sequence of   *)
(* indices, by insertion: index n goes after every index whose key does    *)
(* not come after its own.  With reverse the keys descend, and equal keys  *)
(* still keep their original order, as list.sort(reverse=True) does.       *)
RECURSIVE StableOrder(_, _, _)
StableOrder(keys, reverse, n) ==
    IF n = 0 THEN <<>>
    ELSE LET prev == StableOrder(keys, reverse, n - 1)
             Stays(i) == IF reverse THEN keys[i] >= keys[n]
                                    ELSE keys[i] <= keys[n]
             cnt == Cardinality({j \in 1..(n - 1) : Stays(prev[j])})
         IN  SubSeq(prev, 1, cnt) \o <<n>> \o SubSeq(prev, cnt + 1, n - 1)

Reversed(s) == [i \in 1..Len(s) |-> s[Len(s) + 1 - i]]

SortOrderReversing(keys, reverse) ==
    IF reverse THEN Reversed(StableOrder(keys, FALSE, Len(keys)))
    ELSE StableOrder(keys, FALSE, Len(keys))

SortOrder(keys, reverse) == StableOrder(keys, reverse, Len(keys))

(* s.sort(key=..., reverse=...); keys[i] is the key of s[i].               *)
SortBy(s, keys, reverse) ==
    LET ord == SortOrder(keys, reverse)
    IN  [i \in 1..Len(s) |-> s[ord[i]]]

(* x or 0, for an Optional number x: None and 0 are falsy.                 *)
Or0(x) == IF x = None THEN 0 ELSE x[1]

----------------------------------------------------------------------------
(* The synthesizer (main.py: scrape_stub).                                 *)

base_price == 9990000

PriceFloor == 990000

platforms ==
    << [pf |-> "amazon",   delta |-> 0,        rating |-> 450, reviews |-> 1250],
       [pf |-> "flipkart", delta |-> -500000,  rating |-> 430, reviews |-> 980],
       [pf |-> "myntra",   delta |-> 1200000,  rating |-> 460, reviews |-> 540],
       [pf |-> "ajio",     delta |-> -1000000, rating |-> 420, reviews |-> 330] >>

demo_images ==
    << "https://images.unsplash.com/photo-1511707171634-5f897ff02aa9",
       "https://images.unsplash.com/photo-1512499617640-c2f999098c01",
       "https://images.unsplash.com/photo-1517336714731-489689fd1ca8",
       "https://images.unsplash.com/photo-1526178610626-3f118bb11566" >>

(* round(x, 2) of a money value.                                           *)
Round2(x) == RoundDiv(x, 100) * 100

(* original = price * 1.25                                                 *)
OriginalPrice(price) == (price * 125) \div 100

(* round((1 - price / original) * 100, 2), at 1 = 0.01.                    *)
DiscountOfPrice(price, original) ==
    LET q == FixDiv(price, original, 4)
    IN  IF 2 * q[2] > original \/ (2 * q[2] = original /\ q[1] % 2 = 1)
        THEN q[1] + 1 ELSE q[1]

DiscountPercent(price, original) ==
    LET q == FixDiv(original - price, original, 4)
    IN  IF 2 * q[2] > original \/ (2 * q[2] = original /\ q[1] % 2 = 1)
        THEN q[1] + 1 ELSE q[1]

(* The Deal the loop body appends for platforms[i]; now is what            *)
(* datetime.utcnow() returns in that iteration.                            *)
MakeDeal(query, i, now) ==
    LET t == platforms[i]
        price == Max(PriceFloor, base_price + t.delta)
        original == OriginalPrice(price)
        discount == DiscountPercent(price, original)
    IN  [platform |-> t.pf,
         title |-> Title(query) \o " - Top Pick #" \o ToString(i),
         price |-> Round2(price),
         original_price |-> Some(Round2(original)),
         discount_percent |-> Some(discount),
         rating |-> Some(t.rating),
         reviews_count |-> Some(t.reviews),
         quality_score |-> Some(score_deal(Some(price), Some(t.rating),
                                           Some(t.reviews))),
         image_urls |-> demo_images,
         product_url |-> Some("https://" \o t.pf \o ".com/s?k="
                                \o JoinWords(query, "+")),
         delivery |-> Some("Fast delivery in 2-4 days"),
         created_at |-> Some(now)]

QualityKey(deals) == [i \in 1..Len(deals) |-> Or0(deals[i].quality_score)]

ScrapeStubShortLoop(query, ts) ==
    LET deals == [i \in 1..(Len(platforms) - 1) |-> MakeDeal(query, i, ts[i])]
    IN  SortBy(deals, QualityKey(deals), TRUE)

(* scrape_stub(query); ts[i] is the clock reading of iteration i.          *)
scrape_stub(query, ts) ==
    LET deals == [i \in 1..Len(platforms) |-> MakeDeal(query, i, ts[i])]
    IN  SortBy(deals, QualityKey(deals), TRUE)

----------------------------------------------------------------------------
(* The pitch (main.py: craft_pitch).                                       *)

(* ", ".join(items), each item a sequence of pieces.                       *)
RECURSIVE JoinPieces(_, _)
JoinPieces(items, sep) ==
    IF items = <<>> THEN <<>>
    ELSE IF Len(items) = 1 THEN items[1]
    ELSE items[1] \o <<sep>> \o JoinPieces(Tail(items), sep)

(* deals[lo - 1 : hi] of Python, for 1-based lo.                           *)
Slice(s, lo, hi) == SubSeq(s, lo, Min(hi, Len(s)))

Apology(query) ==
    << "I couldn't find great matches for '", QueryText(query),
       "' right now. ",
       "Try refining the product name or category, and I'll hunt for fresh deals." >>

PitchFor(query, deals) ==
    LET best == deals[1]
        rest == Slice(deals, 2, 3)
        alt == JoinPieces([i \in 1..Len(rest) |->
                             << Capitalize(rest[i].platform), " at Rs.",
                                ToString(IntPart(rest[i].price)) >>], ", ")
    IN  << "If you're looking for ", QueryText(query),
           ", my best pick is on ", Capitalize(best.platform), " at Rs.",
           ToString(IntPart(best.price)), " with ",
           FormatOptFloat(best.discount_percent),
           "% off and a solid ", FormatOptFloat(best.rating), "* from ",
           FormatOptInt(best.reviews_count), "+ reviews. ",
           "I can also get you options from " >>
        \o alt \o << ". Want me to open the best offer for you?" >>

CraftPitchShortList(query, deals) ==
    IF Len(deals) < 2 THEN Apology(query) ELSE PitchFor(query, deals)

(* craft_pitch(query, deals): the pieces of the returned str, in order.    *)
craft_pitch(query, deals) ==
    IF deals = <<>> THEN Apology(query) ELSE PitchFor(query, deals)

----------------------------------------------------------------------------
(* The /search handler (main.py: search_deals).                            *)

(* The two list comprehensions over the price bounds.                      *)
ApplyFiltersStrict(deals, min_price, max_price) ==
    LET above == IF min_price # None
                 THEN SelectSeq(deals, LAMBDA d : d.price > min_price[1])
                 ELSE deals
    IN  IF max_price # None
        THEN SelectSeq(above, LAMBDA d : d.price < max_price[1])
        ELSE above

apply_filters(deals, min_price, max_price) ==
    LET above == IF min_price # None
                 THEN SelectSeq(deals, LAMBDA d : d.price >= min_price[1])
                 ELSE deals
    IN  IF max_price # None
        THEN SelectSeq(above, LAMBDA d : d.price <= max_price[1])
        ELSE above

PriceKey(deals) == [i \in 1..Len(deals) |-> deals[i].price]

RatingKey(deals) == [i \in 1..Len(deals) |-> Or0(deals[i].rating)]

ReviewsKey(deals) == [i \in 1..Len(deals) |-> Or0(deals[i].reviews_count)]

(* The if/elif chain over payload.sort_by.                                 *)
SortDealsElsePriceLow(deals, sort_by) ==
    IF sort_by = Some("price_high") THEN SortBy(deals, PriceKey(deals), TRUE)
    ELSE IF sort_by = Some("rating") THEN SortBy(deals, RatingKey(deals), TRUE)
    ELSE IF sort_by = Some("reviews") THEN SortBy(deals, ReviewsKey(deals), TRUE)
    ELSE IF sort_by = Some("best") THEN SortBy(deals, QualityKey(deals), TRUE)
    ELSE SortBy(deals, PriceKey(deals), FALSE)

SortDealsPriceLowDescending(deals, sort_by) ==
    IF sort_by = Some("price_low") THEN SortBy(deals, PriceKey(deals), TRUE)
    ELSE IF sort_by = Some("price_high") THEN SortBy(deals, PriceKey(deals), TRUE)
    ELSE IF sort_by = Some("rating") THEN SortBy(deals, RatingKey(deals), TRUE)
    ELSE IF sort_by = Some("reviews") THEN SortBy(deals, ReviewsKey(deals), TRUE)
    ELSE SortBy(deals, QualityKey(deals), TRUE)

sort_deals(deals, sort_by) ==
    IF sort_by = Some("price_low") THEN SortBy(deals, PriceKey(deals), FALSE)
    ELSE IF sort_by = Some("price_high") THEN SortBy(deals, PriceKey(deals), TRUE)
    ELSE IF sort_by = Some("rating") THEN SortBy(deals, RatingKey(deals), TRUE)
    ELSE IF sort_by = Some("reviews") THEN SortBy(deals, ReviewsKey(deals), TRUE)
    ELSE SortBy(deals, QualityKey(deals), TRUE)

SearchDealsPitchBeforeSort(p, found) ==
    LET filtered == apply_filters(found, p.min_price, p.max_price)
    IN  [deals |-> sort_deals(filtered, p.sort_by),
         pitch |-> craft_pitch(p.query, filtered)]

(* The body of search_deals after scrape_stub has returned found: the      *)
(* SearchResponse.                                                         *)
search_deals(p, found) ==
    LET filtered == apply_filters(found, p.min_price, p.max_price)
        sorted == sort_deals(filtered, p.sort_by)
    IN  [deals |-> sorted, pitch |-> craft_pitch(p.query, sorted)]

----------------------------------------------------------------------------
(* Requests (schemas.py: SearchQuery).                                     *)

(* A field of the JSON body is absent, or present with a value; a present  *)
(* optional field holds null (None) or a value.                            *)
Absent == <<>>

Present(x) == <<x>>

(* SearchQuery built from a body: an absent field takes its default.       *)
SearchQuery(body) ==
    [query |-> body.query,
     category |-> IF body.category = Absent THEN None ELSE body.category[1],
     min_price |-> IF body.min_price = Absent THEN None ELSE body.min_price[1],
     max_price |-> IF body.max_price = Absent THEN None ELSE body.max_price[1],
     sort_by |-> IF body.sort_by = Absent THEN Some("best")
                 ELSE body.sort_by[1]]

(* The latest clock reading a request may see.                             *)
MaxClock == 1

Queries == { <<"laptop">>, <<"red", "shoes">>, <<>> }

MinPrices == { 0, 8990000, 9495000, 12000000 }

MaxPrices == { 8980000, 9490000, 9990000, 11190000 }

SortValues == { "best", "price_low", "price_high", "rating", "reviews", "banana" }

OptionalField(S) == { Absent, Present(None) } \cup { Present(Some(v)) : v \in S }

Bodies ==
    [query : Queries,
     category : { Absent, Present(Some("electronics")) },
     min_price : OptionalField(MinPrices),
     max_price : OptionalField(MaxPrices),
     sort_by : OptionalField(SortValues)]

(* The readings datetime.utcnow() gives in the four loop iterations: the   *)
(* clock does not go back.                                                 *)
Timestamps ==
    { ts \in [1..Len(platforms) -> 0..MaxClock] :
        \A i \in 1..(Len(platforms) - 1) : ts[i] <= ts[i + 1] }

----------------------------------------------------------------------------
(* The service: one request at a time, from body to response.              *)

Init ==
    /\ pc = "idle"
    /\ payload = None
    /\ scraped = <<>>
    /\ response = None
    /\ args = None
    /\ ret = None

(* The framework validates a POST /search body into a SearchQuery.         *)
Receive ==
    /\ pc = "idle"
    /\ \E body \in Bodies : payload' = Some(SearchQuery(body))
    /\ pc' = "received"
    /\ UNCHANGED <<scraped, response, args, ret>>

(* search_deals(payload) runs to its return.                               *)
Search ==
    /\ pc = "received"
    /\ \E ts \in Timestamps :
         LET found == scrape_stub(payload[1].query, ts)
         IN  /\ scraped' = found
             /\ response' = Some(search_deals(payload[1], found))
    /\ pc' = "responded"
    /\ UNCHANGED <<payload, args, ret>>

(* The response is sent; nothing of the request is kept.                   *)
Reply ==
    /\ pc = "responded"
    /\ pc' = "idle"
    /\ payload' = None
    /\ scraped' = <<>>
    /\ response' = None
    /\ UNCHANGED <<args, ret>>

Next == Receive \/ Search \/ Reply

Spec == Init /\ [][Next]_vars

----------------------------------------------------------------------------
(* score_deal as a function of its arguments.                              *)

(* Prices reach MaxPriceSteps * 10000 and review counts 10^MaxReviewsExp.  *)
MaxPriceSteps == 6

MaxReviewsExp == 6

ScorePrices ==
    { None, Some(999900) } \cup
    { Some(d * MoneyUnit) :
        d \in { 0, 50, 99, 100, 101, 999, 25050, 49999, 50000, 50001 }
                \cup { k * 10000 : k \in 0..MaxPriceSteps } }

(* Ratings 0.0, 0.5, ..., 6.0: the last two lie outside [0, 5].            *)
ScoreRatings == { None } \cup { Some(50 * k) : k \in 0..12 }

ScoreReviews ==
    { None } \cup
    { Some(n) :
        n \in { 0, 1, 2, 3, 5, 7, 10, 50, 99, 100, 330, 500, 540, 980, 999,
                1000, 1250 } \cup { Pow10(e) : e \in 0..MaxReviewsExp } }

InitScore ==
    /\ pc = "idle"
    /\ payload = None
    /\ scraped = <<>>
    /\ response = None
    /\ args \in [price : ScorePrices, rating : ScoreRatings,
                 reviews : ScoreReviews]
    /\ ret = None

CallScoreDeal ==
    /\ ret = None
    /\ ret' = Some(score_deal(args.price, args.rating, args.reviews))
    /\ UNCHANGED <<pc, payload, scraped, response, args>>

NextScore == CallScoreDeal

SpecScore == InitScore /\ [][NextScore]_vars

----------------------------------------------------------------------------
(* The sort of search_deals as a function of the list and the directive.   *)

(* Deal(platform=..., price=..., ...): the fields not given take the       *)
(* defaults of the class.                                                  *)
Deal(platform, title, price, rating, reviews_count, quality_score) ==
    [platform |-> platform,
     title |-> title,
     price |-> price,
     original_price |-> None,
     discount_percent |-> None,
     rating |-> rating,
     reviews_count |-> reviews_count,
     quality_score |-> quality_score,
     image_urls |-> <<>>,
     product_url |-> None,
     delivery |-> None,
     created_at |-> None]

(* Lists of at most MaxDeals deals are sorted.                             *)
MaxDeals == 3

(* Deals whose keys tie, and whose optional keys are absent or zero.       *)
DealPool ==
    { Deal("amazon", "A", 1000000, Some(450), Some(10), Some(9000)),
      Deal("flipkart", "B", 1000000, None, Some(10), None),
      Deal("myntra", "C", 2000000, Some(0), None, Some(0)),
      Deal("ajio", "D", 2000000, Some(450), Some(0), Some(9000)) }

(* The lists search_deals has after its filters, for one query.            *)
FilteredLists ==
    { apply_filters(scrape_stub(<<"laptop">>, [i \in 1..Len(platforms) |-> 0]),
                    mn, mx) :
        mn \in { None } \cup { Some(v) : v \in MinPrices },
        mx \in { None } \cup { Some(v) : v \in MaxPrices } }

DealLists ==
    { l \in UNION { [1..n -> DealPool] : n \in 0..MaxDeals } :
        \A i, j \in 1..Len(l) : i # j => l[i] # l[j] }
    \cup FilteredLists

InitSort ==
    /\ pc = "idle"
    /\ payload = None
    /\ scraped = <<>>
    /\ response = None
    /\ args \in [deals : DealLists,
                 sort_by : { None } \cup { Some(v) : v \in SortValues }]
    /\ ret = None

CallSortDeals ==
    /\ ret = None
    /\ ret' = Some(sort_deals(args.deals, args.sort_by))
    /\ UNCHANGED <<pc, payload, scraped, response, args>>

NextSort == CallSortDeals

SpecSort == InitSort /\ [][NextSort]_vars

----------------------------------------------------------------------------
(* Properties.                                                             *)

PLATFORMS == { "amazon", "flipkart", "myntra", "ajio" }

Range(f) == { f[i] : i \in DOMAIN f }

Responded == pc = "responded"

(* ---- score_deal ---- *)

ScoreArgsInDomain ==
    /\ args.price = None \/ args.price[1] >= 0
    /\ args.rating = None \/ (args.rating[1] >= 0 /\ args.rating[1] <= 500)
    /\ args.reviews = None \/ args.reviews[1] >= 0

(* C1: for a rating in [0, 5], a non-negative review count and a           *)
(* non-negative price, each possibly absent, score_deal returns a value    *)
(* in [0, 1].                                                              *)
C1_ScoreInUnitInterval ==
    (ret # None /\ ScoreArgsInDomain) => (ret[1] >= 0 /\ ret[1] <= 10000)

(* The score reaches 1 on a price below the range with a full rating and   *)
(* a saturated review count.                                               *)
C1_Witness ==
    /\ args = [price |-> Some(50 * MoneyUnit), rating |-> Some(500),
               reviews |-> Some(1250)]
    /\ ret = Some(10000)

ScoreLowBoundary ==
    [price |-> Some(100 * MoneyUnit), rating |-> Some(0), reviews |-> Some(0)]

ScoreHighBoundary ==
    [price |-> Some(50000 * MoneyUnit), rating |-> Some(500),
     reviews |-> Some(1000)]

(* C2 as stated: score(100, 0, 0) is 0.5 and score(50000, 5, 1000) is      *)
(* 0.85, to within one unit of the fourth decimal.                         *)
C2_Original ==
    /\ (args = ScoreLowBoundary /\ ret # None) => ret[1] = 5000
    /\ (args = ScoreHighBoundary /\ ret # None)
         => (ret[1] >= 8499 /\ ret[1] <= 8501)

(* C2: score(100, 0, 0) is 0.5, and score(50000, 5, 1000) is 0.5 as well:  *)
(* the price component is 0 at the top of the range, which leaves          *)
(* 0.35 * 1 + 0.15 * 1.                                                    *)
C2_BoundaryScores ==
    /\ (args = ScoreLowBoundary /\ ret # None) => ret[1] = 5000
    /\ (args = ScoreHighBoundary /\ ret # None) => ret[1] = 5000

C2_Witness == args = ScoreHighBoundary /\ ret = Some(5000)

(* ---- the synthesizer ---- *)

C4_DiscountIsTwenty ==
    Responded =>
        /\ \A i \in 1..Len(scraped) :
             /\ scraped[i].discount_percent = Some(2000)
             /\ scraped[i].original_price # None
             /\ scraped[i].original_price[1] * 4 = scraped[i].price * 5
        /\ \A i \in 1..Len(response[1].deals) :
             response[1].deals[i].discount_percent = Some(2000)

C4_Witness ==
    /\ Responded
    /\ Len(response[1].deals) = 4
    /\ payload[1].query = <<>>
    /\ \A i \in 1..4 : response[1].deals[i].discount_percent = Some(2000)

(* ---- filtering ---- *)

WithinBounds(d) ==
    /\ payload[1].min_price = None \/ d.price >= payload[1].min_price[1]
    /\ payload[1].max_price = None \/ d.price <= payload[1].max_price[1]

(* C5: the deals returned are exactly the synthesized deals whose price is *)
(* at least min_price, when given, and at most max_price, when given; with *)
(* no bound all four are returned.                                         *)
C5_ExactFilter ==
    Responded =>
        LET out == response[1].deals
        IN  /\ Range(out) = { d \in Range(scraped) : WithinBounds(d) }
            /\ \A i, j \in 1..Len(out) : i # j => out[i] # out[j]
            /\ (payload[1].min_price = None /\ payload[1].max_price = None)
                 => Len(out) = 4

(* Both bounds equal the price of a deal, which is kept.                   *)
C5_Witness ==
    /\ Responded
    /\ payload[1].min_price = Some(8990000)
    /\ payload[1].max_price = Some(9990000)
    /\ { response[1].deals[i].platform : i \in 1..Len(response[1].deals) }
         = { "ajio", "flipkart", "amazon" }

(* ---- sorting ---- *)

NamedDirectives == { "price_low", "price_high", "rating", "reviews", "best" }

OptValue(x) == IF x = None THEN 0 ELSE x[1]

DirectiveKey(d, directive) ==
    CASE directive \in { "price_low", "price_high" } -> d.price
      [] directive = "rating" -> OptValue(d.rating)
      [] directive = "reviews" -> OptValue(d.reviews_count)
      [] OTHER -> OptValue(d.quality_score)

Position(l, d) == CHOOSE i \in 1..Len(l) : l[i] = d

(* out is l stably sorted by the key of directive: the same deals, keys    *)
(* ascending for price_low and descending otherwise, equal keys in the     *)
(* order they have in l.                                                   *)
StablySorted(out, l, directive) ==
    /\ Len(out) = Len(l)
    /\ Range(out) = Range(l)
    /\ \A i, j \in 1..Len(out) :
         i < j =>
           LET ki == DirectiveKey(out[i], directive)
               kj == DirectiveKey(out[j], directive)
           IN  /\ IF directive = "price_low" THEN ki <= kj ELSE ki >= kj
               /\ ki = kj => Position(l, out[i]) < Position(l, out[j])

(* C6: for each of the five directives the sorted list is the given list   *)
(* stably sorted by the directive's key, ties keeping their prior order    *)
(* in the descending branches too.                                         *)
C6_StableSort ==
    (ret # None /\ args.sort_by # None /\ args.sort_by[1] \in NamedDirectives)
        => StablySorted(ret[1], args.deals, args.sort_by[1])

(* A descending sort of a list with a tie: amazon and ajio share a rating  *)
(* and stay in their order, ahead of myntra.                               *)
C6_Witness ==
    /\ args.sort_by = Some("rating")
    /\ Len(args.deals) = 3
    /\ args.deals[1].platform = "myntra"
    /\ args.deals[2].platform = "amazon"
    /\ args.deals[3].platform = "ajio"
    /\ ret # None
    /\ ret[1][1].platform = "amazon"
    /\ ret[1][2].platform = "ajio"
    /\ ret[1][3].platform = "myntra"

IsApology(pitch) ==
    /\ Len(pitch) = 4
    /\ pitch[1] = "I couldn't find great matches for '"
    /\ pitch[3] = "' right now. "
    /\ pitch[4] = "Try refining the product name or category, and I'll hunt for fresh deals."

(* C8: the pitch is the apology, with the query text in it, exactly when   *)
(* the returned list of deals is empty.                                    *)
C8_ApologyIffEmpty ==
    Responded =>
        /\ response[1].deals = <<>> <=> IsApology(response[1].pitch)
        /\ response[1].deals = <<>>
             => response[1].pitch[2] = QueryText(payload[1].query)

(* The bounds cross and no deal is left.                                   *)
C8_Witness ==
    /\ Responded
    /\ payload[1].query = <<"red", "shoes">>
    /\ payload[1].min_price = Some(9495000)
    /\ payload[1].max_price = Some(9490000)
    /\ response[1].deals = <<>>
    /\ IsApology(response[1].pitch)
    /\ response[1].pitch[2] = "red shoes"

Mentions(pitch, text) == \E i \in 1..Len(pitch) : pitch[i] = text

Cheapest(deals) ==
    CHOOSE d \in Range(deals) : \A e \in Range(deals) : d.price <= e.price

(* C9: the query "laptop" sorted by price_low with no bounds returns four  *)
(* deals in ascending price, each 20.0 percent off, and a pitch that       *)
(* mentions "laptop" and the name of the cheapest deal's platform.         *)
C9_LaptopPriceLow ==
    (/\ Responded
     /\ payload[1].query = <<"laptop">>
     /\ payload[1].sort_by = Some("price_low")
     /\ payload[1].min_price = None
     /\ payload[1].max_price = None)
    => LET out == response[1].deals
       IN  /\ Len(out) = 4
           /\ \A i \in 1..3 : out[i].price <= out[i + 1].price
           /\ \A i \in 1..4 : out[i].discount_percent = Some(2000)
           /\ Mentions(response[1].pitch, "laptop")
           /\ Mentions(response[1].pitch, Capitalize(Cheapest(scraped).platform))

C9_Witness ==
    /\ Responded
    /\ payload[1].query = <<"laptop">>
    /\ payload[1].sort_by = Some("price_low")
    /\ payload[1].min_price = None
    /\ payload[1].max_price = None
    /\ [i \in 1..4 |-> response[1].deals[i].platform]
         = <<"ajio", "flipkart", "amazon", "myntra">>
    /\ response[1].pitch[4] = "Ajio"
    /\ response[1].pitch[6] = "899"

(* The alternatives a pitch lists, as <<platform, price>> pairs: the       *)
(* pieces between the fourteenth and the closing one, four to an entry     *)
(* with its separator.                                                     *)
PitchAlternatives(pitch) ==
    LET n == (Len(pitch) - 14) \div 4
    IN  [k \in 1..n |-> <<pitch[15 + 4 * (k - 1)], pitch[17 + 4 * (k - 1)]>>]

(* C10: when deals are returned, the pitch's best pick is the platform     *)
(* and price of the first returned deal and its alternatives are the       *)
(* second and third returned deals, as many as there are.                  *)
C10_PitchFromReturnedList ==
    (Responded /\ response[1].deals # <<>>) =>
        LET out == response[1].deals
            pitch == response[1].pitch
            n == Min(2, Len(out) - 1)
        IN  /\ pitch[4] = Capitalize(out[1].platform)
            /\ pitch[6] = ToString(out[1].price \div MoneyUnit)
            /\ PitchAlternatives(pitch) =
                 [k \in 1..n |-> << Capitalize(out[k + 1].platform),
                                    ToString(out[k + 1].price \div MoneyUnit) >>]

(* Under price_high the dearest deal is the best pick.                     *)
C10_Witness ==
    /\ Responded
    /\ payload[1].sort_by = Some("price_high")
    /\ Len(response[1].deals) = 4
    /\ response[1].pitch[4] = "Myntra"
    /\ response[1].pitch[6] = "1119"
    /\ PitchAlternatives(response[1].pitch)
         = << <<"Amazon", "999">>, <<"Flipkart", "949">> >>

=============================================================================
